---- MODULE Spec2Model ----
(***************************************************************************)
(* statsbox.simulation.montecarlo: the MonteCarlo class.                   *)
(*                                                                         *)
(* State: one MonteCarlo instance (its fields means, std_devs, samples,    *)
(* walks, categories), the list objects the caller passed to __init__      *)
(* (the instance keeps references to them, so they are the same objects),  *)
(* the generator objects returned by gen_dists, and the arguments and      *)
(* return value of the last apply_criteria call.                           *)
(*                                                                         *)
(* Samples are integers; a statistic is an exact rational <<num, den>>     *)
(* (den > 0), np.nan is <<0, 0>>, and a standard deviation is kept as the  *)
(* rational under the square root (np.std = sqrt(<<num, den>>)).           *)
(***************************************************************************)
EXTENDS Integers, Sequences, FiniteSets, TLC

VARIABLES status, means, std_devs, samples, walks, categories,
          args, mutations, gens, patched, call, result

vars == <<status, means, std_devs, samples, walks, categories,
          args, mutations, gens, patched, call, result>>

(***************************************************************************)
(* Bounds of the model.                                                    *)
(***************************************************************************)
MaxCats == 2
MaxSamples == 1
MaxWalks == 2
MaxGens == 2
MaxMutations == 1
MaxPool == 2

MeanValues == {10}
StdValues == {1}
SampleValues == {-1, 3}
MockValues == {-1, 2, 3}
ControlIdxs == -1 .. MaxCats
Criterias == {0, 2}
MockCriterias == {0, 2, 5}
TestCris == {"__lt__", "__gt__"}

(***************************************************************************)
(* Sequences and arithmetic.                                               *)
(***************************************************************************)
SeqsUpTo(S, n) == UNION {[1..k -> S] : k \in 0..n}

RECURSIVE Sum(_)
Sum(a) == IF a = <<>> THEN 0 ELSE Head(a) + Sum(Tail(a))

RECURSIVE SumSq(_)
SumSq(a) == IF a = <<>> THEN 0 ELSE Head(a) * Head(a) + SumSq(Tail(a))

RECURSIVE Concat(_)
Concat(ss) == IF ss = <<>> THEN <<>> ELSE Head(ss) \o Concat(Tail(ss))

Abs(x) == IF x < 0 THEN -x ELSE x

RECURSIVE GCD(_, _)
GCD(a, b) == IF b = 0 THEN a ELSE GCD(b, a % b)

\* The rational n/d (d > 0) in lowest terms.
Rat(n, d) == LET g == GCD(Abs(n), d) IN <<n \div g, d \div g>>

NaN == <<0, 0>>
IsNaN(x) == x[2] = 0

Min2(a, b) == IF a <= b THEN a ELSE b

(***************************************************************************)
(* numpy                                                                   *)
(***************************************************************************)
RECURSIVE Insert(_, _)
Insert(v, s) == IF s = <<>> THEN <<v>>
                ELSE IF v <= Head(s) THEN <<v>> \o s
                ELSE <<Head(s)>> \o Insert(v, Tail(s))

\* A bug: the selection is returned in pool order.
np_sort_none(a) == a

RECURSIVE np_sort(_)
np_sort(a) == IF a = <<>> THEN <<>> ELSE Insert(Head(a), np_sort(Tail(a)))

RECURSIVE np_min(_)
np_min(a) == IF Len(a) = 1 THEN Rat(a[1], 1)
             ELSE LET m == np_min(Tail(a))
                  IN IF a[1] <= m[1] THEN Rat(a[1], 1) ELSE m

RECURSIVE np_max(_)
np_max(a) == IF Len(a) = 1 THEN Rat(a[1], 1)
             ELSE LET m == np_max(Tail(a))
                  IN IF a[1] >= m[1] THEN Rat(a[1], 1) ELSE m

np_mean(a) == Rat(Sum(a), Len(a))

np_median(a) ==
    LET s == np_sort(a)
        n == Len(s)
    IN IF n % 2 = 1 THEN Rat(s[(n + 1) \div 2], 1)
       ELSE Rat(s[n \div 2] + s[n \div 2 + 1], 2)

\* Population standard deviation: sqrt of the rational returned.
np_std(a) == Rat(Len(a) * SumSq(a) - Sum(a) * Sum(a), Len(a) * Len(a))

\* A bug: <= for <.
where_lt_le(a, c) == SelectSeq(a, LAMBDA v : v <= c)

\* np.where(a < c)[0] followed by a[idx]: the elements below c, in order.
where_lt(a, c) == SelectSeq(a, LAMBDA v : v < c)

\* A bug: >= for >.
where_gt_ge(a, c) == SelectSeq(a, LAMBDA v : v >= c)

\* np.where(a > c)[0] followed by a[idx]: the elements above c, in order.
where_gt(a, c) == SelectSeq(a, LAMBDA v : v > c)

\* rng.normal(mean, std_dev, size): every array of `size` draws.
normal(mean, std_dev, size) == [1..size -> SampleValues]

(***************************************************************************)
(* MonteCarlo.__init__                                                     *)
(***************************************************************************)
\* A bug: only the first comparison is made.
LengthsUnequal_first(m, sd, sm) == Len(m) /= Len(sd)

\* The condition under which __init__ raises ValueError.
LengthsUnequal(m, sd, sm) == (Len(m) /= Len(sd)) \/ (Len(m) /= Len(sm))

NoArgs == [means |-> <<>>, std_dev |-> <<>>, samples |-> <<>>, walks |-> 0]
NoCall == [made |-> FALSE, dists |-> <<>>, control_idx |-> -1, criteria |-> 0,
           test_cri |-> "__lt__"]
NoGen == [st |-> "none", n |-> 0, count |-> 0, dists |-> <<>>]
Unpatched == [on |-> FALSE, left |-> 0, walks |-> <<>>]

\* (values, min, mean, median, max, std) of an empty misclassified set.
EmptySummary == [values |-> <<>>, minimum |-> NaN, mean |-> NaN, median |-> NaN,
                 maximum |-> NaN, std |-> NaN]

Init ==
    /\ status = "none"
    /\ means = <<>> /\ std_devs = <<>> /\ samples = <<>>
    /\ walks = 0 /\ categories = 0
    /\ args = NoArgs
    /\ mutations = 0
    /\ gens = [g \in 1..MaxGens |-> NoGen]
    /\ patched = Unpatched
    /\ call = NoCall
    /\ result = <<EmptySummary, EmptySummary>>

\* MonteCarlo(m, sd, sm, w): raises ValueError and creates no instance, or
\* stores the arguments (the lists by reference) and len(means).
Construct(m, sd, sm, w) ==
    /\ status = "none"
    /\ args' = [means |-> m, std_dev |-> sd, samples |-> sm, walks |-> w]
    /\ IF LengthsUnequal(m, sd, sm)
       THEN /\ status' = "error"
            /\ UNCHANGED <<means, std_devs, samples, walks, categories>>
       ELSE /\ status' = "ok"
            /\ means' = m
            /\ std_devs' = sd
            /\ samples' = sm
            /\ walks' = w
            /\ categories' = Len(m)
    /\ UNCHANGED <<mutations, gens, patched, call, result>>

(***************************************************************************)
(* The caller changes, in place, a list it passed to __init__.  self.means,*)
(* self.std_devs and self.samples are references to those lists.           *)
(***************************************************************************)
ListOps(l, S) ==
    {Append(l, v) : v \in IF Len(l) < MaxCats THEN S ELSE {}}
    \cup (IF l = <<>> THEN {} ELSE {SubSeq(l, 1, Len(l) - 1)})
    \cup UNION {{[l EXCEPT ![i] = v] : v \in S \ {l[i]}} : i \in DOMAIN l}

CallerMutate ==
    /\ status = "ok"
    /\ ~call.made
    /\ mutations < MaxMutations
    /\ mutations' = mutations + 1
    /\ \/ \E l \in ListOps(means, MeanValues) :
             means' = l /\ UNCHANGED <<std_devs, samples>>
       \/ \E l \in ListOps(std_devs, StdValues) :
             std_devs' = l /\ UNCHANGED <<means, samples>>
       \/ \E l \in ListOps(samples, 0..MaxSamples) :
             samples' = l /\ UNCHANGED <<means, std_devs>>
    /\ UNCHANGED <<status, walks, categories, args, gens, patched, call, result>>

(***************************************************************************)
(* MonteCarlo.gen_dists                                                    *)
(***************************************************************************)
\* A bug: one walk too many.
range_inclusive(n) == IF n > 0 THEN n + 1 ELSE 1

\* len(range(n))
range(n) == IF n > 0 THEN n ELSE 0

\* len(zip(a, b, c))
ZipLen(a, b, c) == Min2(Len(a), Min2(Len(b), Len(c)))

\* One pass of the inner loop: every list `dists` can be after it.
WalkDists(m, sd, sm) ==
    LET k == ZipLen(m, sd, sm)
    IN {d \in [1..k -> SeqsUpTo(SampleValues, MaxSamples)] :
            \A i \in 1..k : d[i] \in normal(m[i], sd[i], sm[i])}

\* Everything one gen_dists() consumed to exhaustion can yield.
GenDistsRuns == [1..range(walks) -> WalkDists(means, std_devs, samples)]

\* mc.gen_dists(): a new generator object; no line of the body has run.
GenDists(g) ==
    /\ status = "ok"
    /\ ~call.made
    /\ gens[g].st \in {"none", "done"}
    /\ gens' = [gens EXCEPT ![g] = [NoGen EXCEPT !.st = "created"]]
    /\ UNCHANGED <<status, means, std_devs, samples, walks, categories,
                   args, mutations, patched, call, result>>

\* next(gen): runs to the next yield, or off the end of the loop.
NextWalk(g) ==
    /\ status = "ok"
    /\ ~call.made
    /\ gens[g].st \in {"created", "suspended"}
    /\ LET n == IF gens[g].st = "created" THEN range(walks) ELSE gens[g].n
       IN IF gens[g].count < n
          THEN \E d \in WalkDists(means, std_devs, samples) :
                 gens' = [gens EXCEPT ![g] = [st |-> "suspended", n |-> n,
                                              count |-> gens[g].count + 1,
                                              dists |-> d]]
          ELSE gens' = [gens EXCEPT ![g].st = "done", ![g].n = n]
    /\ UNCHANGED <<status, means, std_devs, samples, walks, categories,
                   args, mutations, patched, call, result>>

(***************************************************************************)
(* MonteCarlo.apply_criteria                                               *)
(***************************************************************************)
FAIL == 0
PASS == 1

BoolInt(b) == IF b THEN 1 ELSE 0

\* The index into all_dists for the category at position idx (from 0).
PoolIndex(idx, control_idx) == BoolInt(idx = control_idx) + FAIL

\* The arrays of one walk that are concatenated onto all_dists[k].
RECURSIVE WalkPool(_, _, _, _)
WalkPool(dists, idx, control_idx, k) ==
    IF idx >= Len(dists) THEN <<>>
    ELSE (IF PoolIndex(idx, control_idx) = k THEN dists[idx + 1] ELSE <<>>)
         \o WalkPool(dists, idx + 1, control_idx, k)

\* all_dists[k] after the loop over the walks.
RECURSIVE AllDists(_, _, _)
AllDists(ds, control_idx, k) ==
    IF ds = <<>> THEN <<>>
    ELSE WalkPool(Head(ds), 0, control_idx, k) \o AllDists(Tail(ds), control_idx, k)

\* A bug: a selection of one sample is taken for an empty one.
Summary_single(sel) ==
    IF Len(sel) > 1
    THEN LET s == np_sort(sel)
         IN [values |-> s, minimum |-> np_min(s), mean |-> np_mean(s),
             median |-> np_median(s), maximum |-> np_max(s), std |-> np_std(s)]
    ELSE EmptySummary

\* The branch on false_xxx_idx.size: the tuple built from the selection.
Summary(sel) ==
    IF Len(sel) /= 0
    THEN LET s == np_sort(sel)
         IN [values |-> s, minimum |-> np_min(s), mean |-> np_mean(s),
             median |-> np_median(s), maximum |-> np_max(s), std |-> np_std(s)]
    ELSE EmptySummary

\* A change: test_cri selects the comparison, as its documentation says.
apply_criteria_test_cri(ds, control_idx, criteria, test_cri) ==
    IF test_cri = "__lt__"
    THEN <<Summary(where_lt(AllDists(ds, control_idx, FAIL), criteria)),
           Summary(where_gt(AllDists(ds, control_idx, PASS), criteria))>>
    ELSE <<Summary(where_gt(AllDists(ds, control_idx, FAIL), criteria)),
           Summary(where_lt(AllDists(ds, control_idx, PASS), criteria))>>

\* The pair (false_neg, false_pos) returned for the walks ds.
apply_criteria(ds, control_idx, criteria, test_cri) ==
    <<Summary(where_lt(AllDists(ds, control_idx, FAIL), criteria)),
      Summary(where_gt(AllDists(ds, control_idx, PASS), criteria))>>

\* mc.apply_criteria(control_idx, criteria, test_cri): runs self.gen_dists()
\* (the mock's return value when patched) to exhaustion and scores it.
ApplyCriteria(control_idx, criteria, test_cri) ==
    /\ status = "ok"
    /\ ~call.made
    /\ patched.on => patched.left > 0
    /\ \E ds \in IF patched.on THEN {patched.walks} ELSE GenDistsRuns :
         /\ call' = [made |-> TRUE, dists |-> ds, control_idx |-> control_idx,
                     criteria |-> criteria, test_cri |-> test_cri]
         /\ result' = apply_criteria(ds, control_idx, criteria, test_cri)
    /\ patched' = IF patched.on THEN [patched EXCEPT !.left = 0] ELSE patched
    /\ UNCHANGED <<status, means, std_devs, samples, walks, categories,
                   args, mutations, gens>>

\* The caller is done with the tuple apply_criteria returned.
Return ==
    /\ call.made
    /\ ~patched.on
    /\ call' = NoCall
    /\ result' = <<EmptySummary, EmptySummary>>
    /\ UNCHANGED <<status, means, std_devs, samples, walks, categories,
                   args, mutations, gens, patched>>

Next ==
    \/ \E m \in SeqsUpTo(MeanValues, MaxCats), sd \in SeqsUpTo(StdValues, MaxCats),
          sm \in SeqsUpTo(0..MaxSamples, MaxCats), w \in 0..MaxWalks :
          Construct(m, sd, sm, w)
    \/ CallerMutate
    \/ \E g \in 1..MaxGens : GenDists(g)
    \/ \E g \in 1..MaxGens : NextWalk(g)
    \/ \E c \in ControlIdxs, t \in Criterias, tc \in TestCris : ApplyCriteria(c, t, tc)
    \/ Return

Spec == Init /\ [][Next]_vars

\* Construction alone: every call of MonteCarlo(means, std_dev, samples, walks).
NextConstruct ==
    \E m \in SeqsUpTo(MeanValues, MaxCats), sd \in SeqsUpTo(StdValues, MaxCats),
       sm \in SeqsUpTo(0..MaxSamples, MaxCats), w \in 0..MaxWalks :
       Construct(m, sd, sm, w)

SpecConstruct == Init /\ [][NextConstruct]_vars

(***************************************************************************)
(* The tests of apply_criteria: an instance built from setUp's values,     *)
(* gen_dists replaced by a mock that returns a prepared list of walks      *)
(* once, then one call of apply_criteria.                                  *)
(***************************************************************************)
ScenarioA == << << <<12, 11, 10, 9, 8>>, <<6, 5, 4, 3, 2>>, <<6, 5, 4, 3, 2>> >> >>
ScenarioPass == << << <<12, 11, 10, 9, 8>>, <<10, 9, 8, 7, 6>>, <<5, 4, 3, 2, 1>> >> >>
Fixtures == {ScenarioA, ScenarioPass}

SetUpArgs == [means |-> <<10, 12>>, std_dev |-> <<1, 2>>, samples |-> <<20, 30>>,
              walks |-> 10]

InitCriteria ==
    /\ status = "ok"
    /\ means = SetUpArgs.means
    /\ std_devs = SetUpArgs.std_dev
    /\ samples = SetUpArgs.samples
    /\ walks = SetUpArgs.walks
    /\ categories = Len(SetUpArgs.means)
    /\ args = SetUpArgs
    /\ mutations = 0
    /\ gens = [g \in 1..MaxGens |-> NoGen]
    /\ patched = [on |-> TRUE, left |-> 1, walks |-> <<>>]
    /\ call = NoCall
    /\ result = <<EmptySummary, EmptySummary>>

\* The number of arrays in each walk the tests prepare.
MockCats == 3

\* The number of samples in a list of walks.
PoolSize(ds) == Len(Concat(Concat(ds)))

PatchKeep == UNCHANGED <<status, means, std_devs, samples, walks, categories,
                         args, mutations, gens, call, result>>

\* The prepared list gets one more walk, of MockCats empty arrays.
PatchWalk ==
    /\ patched.on /\ patched.left > 0
    /\ Len(patched.walks) < MaxWalks
    /\ patched.walks \notin Fixtures
    /\ patched' = [patched EXCEPT !.walks = Append(@, [c \in 1..MockCats |-> <<>>])]
    /\ PatchKeep

\* Array c of its last walk gets one more sample.
PatchSample(c, v) ==
    /\ patched.on /\ patched.left > 0
    /\ patched.walks /= <<>>
    /\ patched.walks \notin Fixtures
    /\ PoolSize(patched.walks) < MaxPool
    /\ LET w == Len(patched.walks)
       IN patched' = [patched EXCEPT !.walks[w][c] = Append(@, v)]
    /\ PatchKeep

\* The prepared list is the one of a test.
PatchFixture(f) ==
    /\ patched.on /\ patched.left > 0
    /\ patched.walks = <<>>
    /\ patched' = [patched EXCEPT !.walks = f]
    /\ PatchKeep

NextCriteria ==
    \/ PatchWalk
    \/ \E c \in 1..MockCats, v \in MockValues : PatchSample(c, v)
    \/ \E f \in Fixtures : PatchFixture(f)
    \/ \E c \in -1..MockCats, t \in MockCriterias, tc \in TestCris :
          ApplyCriteria(c, t, tc)

SpecCriteria == InitCriteria /\ [][NextCriteria]_vars

(***************************************************************************)
(* Vocabulary of the properties: the samples of a list of walks by         *)
(* position, independently of how apply_criteria pools them.               *)
(***************************************************************************)
\* <<w, i, j>>: sample j of the array of category i - 1 of walk w.
Positions(ds) ==
    UNION {UNION {{<<w, i, j>> : j \in DOMAIN ds[w][i]} : i \in DOMAIN ds[w]}
           : w \in DOMAIN ds}

At(ds, p) == ds[p[1]][p[2]][p[3]]

\* Samples of categories other than control_idx that are below criteria.
NonControlBelow(ds, control_idx, criteria) ==
    {p \in Positions(ds) : p[2] - 1 /= control_idx /\ At(ds, p) < criteria}

\* Samples of the category control_idx that are above criteria.
ControlAbove(ds, control_idx, criteria) ==
    {p \in Positions(ds) : p[2] - 1 = control_idx /\ At(ds, p) > criteria}

Elems(a) == {a[k] : k \in DOMAIN a}
CountIn(a, v) == Cardinality({k \in DOMAIN a : a[k] = v})
Ascending(a) == \A k \in 1..(Len(a) - 1) : a[k] <= a[k + 1]

\* a is the ascending sort of the samples at the positions P.
IsSortOf(a, ds, P) ==
    /\ Ascending(a)
    /\ \A v \in Elems(a) \cup {At(ds, p) : p \in P} :
          CountIn(a, v) = Cardinality({p \in P : At(ds, p) = v})

Stats(r) == {r.minimum, r.mean, r.median, r.maximum, r.std}
AllNaN(r) == \A x \in Stats(r) : IsNaN(x)
NoneNaN(r) == \A x \in Stats(r) : ~IsNaN(x)

\* control_idx names a category of every walk.
InRange(ds, control_idx) ==
    control_idx >= 0 /\ \A w \in DOMAIN ds : control_idx < Len(ds[w])

Reverse(a) == [k \in 1..Len(a) |-> a[Len(a) + 1 - k]]
Perms(n) == {f \in [1..n -> 1..n] : \A i, j \in 1..n : f[i] = f[j] => i = j}

(***************************************************************************)
(* C1: every gen_dists() consumed to exhaustion yields exactly walkCount   *)
(* walks and then ends, each walk holding categoryCount arrays with array  *)
(* i of length sampleCounts[i], whatever was called before and however     *)
(* two generators are interleaved.                                         *)
(***************************************************************************)
C1_GenDistsShape ==
    status = "ok" =>
      \A g \in 1..MaxGens :
        /\ gens[g].count <= args.walks
        /\ gens[g].st = "done" => gens[g].count = args.walks
        /\ gens[g].count > 0 =>
             /\ Len(gens[g].dists) = categories
             /\ Len(gens[g].dists) = Len(args.samples)
             /\ \A i \in DOMAIN gens[g].dists :
                   i \in DOMAIN args.samples
                   /\ Len(gens[g].dists[i]) = args.samples[i]

\* C1 without the caller changing its lists: holds.
C1_GenDistsShape_Unchanged == mutations = 0 => C1_GenDistsShape

(***************************************************************************)
(* C2: construction raises ValueError exactly for the triples whose three  *)
(* lengths are not all equal, and then no instance exists; it succeeds for *)
(* every triple of equal lengths, for any walkCount.                       *)
(***************************************************************************)
AllEqualLengths(a) ==
    Len(a.means) = Len(a.std_dev) /\ Len(a.std_dev) = Len(a.samples)

C2_ConstructionError ==
    status /= "none" =>
      /\ status = "error" <=> ~AllEqualLengths(args)
      /\ status = "ok" <=> AllEqualLengths(args)
      /\ status = "error" =>
           /\ means = <<>> /\ std_devs = <<>> /\ samples = <<>>
           /\ walks = 0 /\ categories = 0
           /\ \A g \in 1..MaxGens : gens[g] = NoGen
           /\ ~call.made

C2_Witness ==
    /\ status = "error"
    /\ Len(args.means) = Len(args.std_dev)
    /\ Len(args.means) /= Len(args.samples)
    /\ args.walks > 0

(***************************************************************************)
(* C3: the false-negative values are the ascending sort of exactly the     *)
(* samples of non-control categories strictly below the threshold, the     *)
(* false-positive values the ascending sort of exactly the samples of the  *)
(* control category strictly above it; a sample equal to the threshold is  *)
(* in neither.                                                             *)
(***************************************************************************)
C3_Misclassified ==
    (call.made /\ InRange(call.dists, call.control_idx)) =>
      /\ IsSortOf(result[1].values, call.dists,
                  NonControlBelow(call.dists, call.control_idx, call.criteria))
      /\ IsSortOf(result[2].values, call.dists,
                  ControlAbove(call.dists, call.control_idx, call.criteria))
      /\ call.criteria \notin Elems(result[1].values) \cup Elems(result[2].values)

C3_Witness ==
    /\ call.made /\ InRange(call.dists, call.control_idx)
    /\ result[1].values /= <<>>
    /\ result[2].values /= <<>>
    /\ \E p \in Positions(call.dists) : At(call.dists, p) = call.criteria

(***************************************************************************)
(* C4: a result has the five statistics all NaN and an empty value         *)
(* sequence exactly when no sample of its pool is misclassified; otherwise *)
(* none of the five is NaN, minimum is the first and maximum the last      *)
(* element of the sorted values.                                           *)
(***************************************************************************)
C4_OnePool(r, P) ==
    /\ (P = {}) <=> (r.values = <<>> /\ AllNaN(r))
    /\ (P = {}) <=> (r.values = <<>>)
    /\ (P = {}) <=> (\E x \in Stats(r) : IsNaN(x))
    /\ (P /= {}) => /\ NoneNaN(r)
                    /\ r.minimum = <<r.values[1], 1>>
                    /\ r.maximum = <<r.values[Len(r.values)], 1>>

C4_NaNWhenEmpty ==
    call.made =>
      /\ C4_OnePool(result[1],
                    NonControlBelow(call.dists, call.control_idx, call.criteria))
      /\ C4_OnePool(result[2],
                    ControlAbove(call.dists, call.control_idx, call.criteria))

C4_Witness ==
    /\ call.made
    /\ result[1] = EmptySummary
    /\ Len(result[2].values) >= 2
    /\ result[2].minimum /= result[2].maximum
    /\ \E p \in Positions(call.dists) : p[2] - 1 /= call.control_idx

(***************************************************************************)
(* C5: called without a control index (-1), apply_criteria takes the last  *)
(* category as the control: the result is the one of control_idx =         *)
(* categoryCount - 1.                                                      *)
(***************************************************************************)
C5_DefaultIsLast ==
    (call.made /\ call.control_idx = -1) =>
      \A k \in 1..MockCats :
        (call.dists /= <<>> /\ \A w \in DOMAIN call.dists : Len(call.dists[w]) = k)
        => result = apply_criteria(call.dists, k - 1, call.criteria, call.test_cri)

(***************************************************************************)
(* C6: the returned pair is the same for every reordering of the walks.    *)
(***************************************************************************)
C6_OrderIndependent ==
    call.made =>
      \A f \in Perms(Len(call.dists)) :
        apply_criteria([k \in 1..Len(call.dists) |-> call.dists[f[k]]],
                       call.control_idx, call.criteria, call.test_cri) = result

C6_Witness ==
    /\ call.made
    /\ Len(result[1].values) >= 2
    /\ where_lt(AllDists(call.dists, call.control_idx, FAIL), call.criteria)
         /= where_lt(AllDists(Reverse(call.dists), call.control_idx, FAIL),
                     call.criteria)

(***************************************************************************)
(* C7: with walkCount = 0 gen_dists yields no walk, and apply_criteria     *)
(* returns, for both results, empty values and NaN for the five statistics.*)
(***************************************************************************)
C7_ZeroWalks ==
    (status = "ok" /\ walks = 0) =>
      /\ \A g \in 1..MaxGens : gens[g].count = 0 /\ gens[g].st /= "suspended"
      /\ call.made => /\ call.dists = <<>>
                      /\ result = <<EmptySummary, EmptySummary>>

C7_Witness ==
    /\ status = "ok" /\ walks = 0
    /\ \E i \in DOMAIN samples : samples[i] > 0
    /\ \E g \in 1..MaxGens : gens[g].st = "done"
    /\ call.made /\ call.control_idx = 0 /\ call.criteria = 2

(***************************************************************************)
(* C8 as written: for the one walk [12,11,10,9,8], [6,5,4,3,2],            *)
(* [6,5,4,3,2] with control index 2 and threshold 5, both results are      *)
(* empty with NaN statistics.                                              *)
(***************************************************************************)
C8_ScenarioB_Original ==
    (call.made /\ call.dists = ScenarioA /\ call.control_idx = 2
       /\ call.criteria = 5)
    => result = <<EmptySummary, EmptySummary>>

(***************************************************************************)
(* C8 amended: both results are empty with NaN statistics for the one walk *)
(* [12,11,10,9,8], [10,9,8,7,6], [5,4,3,2,1] with control index 2 and      *)
(* threshold 5; for the walk [12,11,10,9,8], [6,5,4,3,2], [6,5,4,3,2] the  *)
(* same call returns the false negatives 2, 3, 4 and the false positive 6. *)
(***************************************************************************)
C8_ScenarioB ==
    (call.made /\ call.control_idx = 2 /\ call.criteria = 5) =>
      /\ call.dists = ScenarioPass => result = <<EmptySummary, EmptySummary>>
      /\ call.dists = ScenarioA =>
           /\ result[1] = [values |-> <<2, 3, 4>>, minimum |-> <<2, 1>>,
                           mean |-> <<3, 1>>, median |-> <<3, 1>>,
                           maximum |-> <<4, 1>>, std |-> <<2, 3>>]
           /\ result[2] = [values |-> <<6>>, minimum |-> <<6, 1>>,
                           mean |-> <<6, 1>>, median |-> <<6, 1>>,
                           maximum |-> <<6, 1>>, std |-> <<0, 1>>]

C8_Witness ==
    /\ call.made /\ call.dists = ScenarioPass
    /\ call.control_idx = 2 /\ call.criteria = 5
    /\ AllNaN(result[1]) /\ AllNaN(result[2])

(***************************************************************************)
(* C9: after a successful construction the instance's means, stdDevs,      *)
(* sampleCounts and walkCount equal their values at construction, and the  *)
(* three lengths equal categoryCount, whatever is called on the instance   *)
(* and whatever the caller does to the sequences it passed.                *)
(***************************************************************************)
C9_ConfigImmutable ==
    status = "ok" =>
      /\ means = args.means
      /\ std_devs = args.std_dev
      /\ samples = args.samples
      /\ walks = args.walks
      /\ Len(means) = categories
      /\ Len(std_devs) = categories
      /\ Len(samples) = categories

====
